---- MODULE Spec2Model ----
(***************************************************************************)
(* A model of the terminal system monitor: the interaction state machine   *)
(* of src/src/app.rs (App), the process list of src/src/sys.rs (SysCache,  *)
(* top_processes, build_process_tree) and the projection drawn by          *)
(* src/src/ui.rs (draw_processes).                                         *)
(*                                                                         *)
(* Spec follows the interaction state, SpecTree one call of                *)
(* build_process_tree, SpecNet the network rates of SysCache::refresh,     *)
(* SpecHist the history rings of App::on_tick, SpecQueue the input thread  *)
(* of src/src/event.rs with the main loop, and SpecFmt one call of         *)
(* format_duration_secs; each holds the variables of the others still.     *)
(*                                                                         *)
(* Rust strings are sequences of one-character strings, Option::None of an *)
(* Option<u32> / Option<usize> is the value None, f32 and u64 readings are *)
(* small naturals.                                                         *)
(***************************************************************************)
EXTENDS Integers, Sequences, FiniteSets, TLC

\* ------------------------------------------------------------------ bounds

\* Longest search text the operator types.
MaxQuery == 2

\* Largest pid of the process tables given to the tree builder.
MaxPid == 3

\* ------------------------------------------------------------ basic values

\* Option::None (parent: Option<u32>, TableState::selected(): Option<usize>).
None == -1

\* Code points of the characters that occur in the model.
CharCode(c) ==
    CASE c = "7" -> 55
      [] c = "Q" -> 81
      [] c = "a" -> 97
      [] c = "b" -> 98
      [] c = "k" -> 107
      [] c = "o" -> 111
      [] c = "q" -> 113
      [] c = "r" -> 114
      [] c = "t" -> 116
      [] OTHER -> 0

\* char::to_lowercase on the characters of the model.
LowerChar(c) == IF c = "Q" THEN "q" ELSE c

\* A lowering that keeps the case of every character.
keep_case(s) == s

\* str::to_lowercase
to_lowercase(s) == [i \in 1..Len(s) |-> LowerChar(s[i])]

\* str::contains(&needle): needle occurs as a contiguous substring.
contains(hay, needle) ==
    \E i \in 0..(Len(hay) - Len(needle)) :
        SubSeq(hay, i + 1, i + Len(needle)) = needle

Digits == <<"0", "1", "2", "3", "4", "5", "6", "7", "8", "9">>

RECURSIVE to_string(_)
\* u32::to_string: the decimal digits of n, most significant first.
to_string(n) ==
    IF n < 10 THEN <<Digits[n + 1]>>
    ELSE to_string(n \div 10) \o <<Digits[(n % 10) + 1]>>

RECURSIVE StrCmp(_, _)
\* Ord for String: lexicographic by code point; -1 Less, 0 Equal, 1 Greater.
StrCmp(a, b) ==
    IF a = <<>> /\ b = <<>> THEN 0
    ELSE IF a = <<>> THEN -1
    ELSE IF b = <<>> THEN 1
    ELSE IF CharCode(Head(a)) < CharCode(Head(b)) THEN -1
    ELSE IF CharCode(Head(a)) > CharCode(Head(b)) THEN 1
    ELSE StrCmp(Tail(a), Tail(b))

\* Ord for integers; -1 Less, 0 Equal, 1 Greater.
NumCmp(a, b) == IF a < b THEN -1 ELSE IF a > b THEN 1 ELSE 0

\* slice::sort_by(cmp): a stable sort; cmp[i, j] is the comparator's result
\* on s[i] and s[j]. The element at position i goes behind every element
\* that compares Less than it and every earlier Equal one.
slice_sort_by(s, cmp) ==
    LET n == Len(s)
        rank(i) == Cardinality({j \in 1..n :
                        \/ cmp[j, i] < 0
                        \/ (cmp[j, i] = 0 /\ j < i)})
    IN  [k \in 1..n |-> s[CHOOSE i \in 1..n : rank(i) = k - 1]]

\* The pids of a process list, as a set.
PidsOf(s) == {s[i].pid : i \in 1..Len(s)}

\* ------------------------------------------------------- the process table

\* ProcessInfo records of the processes the host can run (cmd is only painted
\* and is left out). Two of them tie on cpu.
Universe ==
    { [pid |-> 3,  name |-> <<"Q", "a">>, user |-> <<"r", "o", "o", "t">>,
       cpu |-> 5, mem_bytes |-> 5, parent |-> None, indent |-> 0],
      [pid |-> 17, name |-> <<"k">>,      user |-> <<"b", "o", "b">>,
       cpu |-> 5, mem_bytes |-> 9, parent |-> 3,    indent |-> 0],
      [pid |-> 27, name |-> <<"q", "k">>, user |-> <<"r", "o", "o", "t">>,
       cpu |-> 9, mem_bytes |-> 1, parent |-> 17,   indent |-> 0] }

\* sys.processes().values(): the live processes in the hash map's iteration
\* order, which is any order.
ProviderTables ==
    UNION { { f \in [1..n -> Universe] :
                \A i, j \in 1..n : i # j => f[i].pid # f[j].pid } :
            n \in 0..Cardinality(Universe) }

ProcessSort == {"Cpu", "Memory", "Pid", "Tree"}

\* top_processes for the keys that sort the flat list (Cpu and Memory
\* descending, Pid ascending); the Tree key hands the pid-sorted list to
\* build_process_tree, modelled step by step below.
top_processes(infos, sort) ==
    LET n == Len(infos)
    IN  CASE sort = "Cpu"    -> slice_sort_by(infos,
                [a, b \in 1..n |-> NumCmp(infos[b].cpu, infos[a].cpu)])
          [] sort = "Memory" -> slice_sort_by(infos,
                [a, b \in 1..n |-> NumCmp(infos[b].mem_bytes, infos[a].mem_bytes)])
          [] sort = "Pid"    -> slice_sort_by(infos,
                [a, b \in 1..n |-> NumCmp(infos[a].pid, infos[b].pid)])
          [] sort = "Tree"   -> slice_sort_by(infos,
                [a, b \in 1..n |-> NumCmp(infos[a].pid, infos[b].pid)])

\* ------------------------------------------------------------------ state

VARIABLES
    procs,          \* SysCache.procs: the process list of the last refresh
    sort_by,        \* SysCache.sort_by
    selected,       \* App.table_state.selected(): None or an index from 0
    search_query,   \* App.search_query
    input_mode,     \* App.input_mode
    popup,          \* App.popup
    should_quit,    \* App.should_quit
    kill_calls,     \* pids SysCache::kill_process was called with by the last event
    killed,         \* pids Process::kill was sent to by the last event
    last,           \* the last event the main loop handled
    flat,           \* build_process_tree: its argument
    children_map,   \* build_process_tree: parent -> pids, in insertion order
    roots,          \* build_process_tree: the roots still to be emitted
    stack,          \* append_node: the active calls, innermost first
    result,         \* build_process_tree: the records emitted so far
    pc,             \* build_process_tree: where it stands
    networks,       \* the provider's interfaces: cumulative rx and tx bytes
    networks_before,\* the provider's interfaces as the previous refresh read them
    rx_rate,        \* SysCache.rx_rate
    tx_rate,        \* SysCache.tx_rate
    prev_rx,        \* SysCache.prev_rx
    prev_tx,        \* SysCache.prev_tx
    refreshes,      \* the number of SysCache::refresh calls so far
    cpu_global,     \* SysCache.cpu_global, in tenths of a percent
    cpu_history,    \* App.cpu_history
    net_rx_history, \* App.net_rx_history
    net_tx_history, \* App.net_tx_history
    samples,        \* the metrics each on_tick refreshed, oldest first
    stream,         \* which of the provider's counter streams the host produces
    channel,        \* the mpsc channel of spawn_events: events sent, not yet received
    producer_pc,    \* the input thread: where it stands
    polled_key,     \* the input thread: the key event::read returned
    poll_result,    \* the input thread: how its latest event::poll ended
    polls,          \* the number of event::poll calls so far
    sent,           \* every event sent on the channel, oldest first
    handled,        \* every event the main loop handled, oldest first
    running,        \* main: the loop has not been left
    total_secs,     \* format_duration_secs: its argument
    definition,     \* format_duration_secs: which of its definitions is built
    rendered        \* format_duration_secs: the String returned, empty before the call

appvars  == <<procs, sort_by, selected, search_query, input_mode, popup, should_quit>>
outvars  == <<kill_calls, killed>>
treevars == <<flat, children_map, roots, stack, result, pc>>
netvars  == <<networks, networks_before, rx_rate, tx_rate, prev_rx, prev_tx, refreshes>>
histvars == <<cpu_global, cpu_history, net_rx_history, net_tx_history, samples, stream>>
queuevars == <<channel, producer_pc, polled_key, poll_result, polls, sent, handled, running>>
fmtvars  == <<total_secs, definition, rendered>>
vars     == <<appvars, outvars, last, treevars, netvars, histvars, queuevars, fmtvars>>

PopupNone == [kind |-> "None"]
PopupHelp == [kind |-> "Help"]
PopupKill(pid, name) == [kind |-> "Kill", pid |-> pid, name |-> name]

\* The keys the terminal delivers: the characters q Q k / s ? n N y Y 7 t, the
\* named keys, Ctrl-c, and F1 for a key no mode binds.
Keys ==
    {"q", "Q", "k", "/", "s", "?", "n", "N", "y", "Y", "7", "t",
     "Down", "Up", "Tab", "Esc", "Enter", "Backspace", "Ctrl-c", "F1"}

\* KeyCode::Char(c)
IsChar(key) == key \in {"q", "Q", "k", "/", "s", "?", "n", "N", "y", "Y", "7", "t"}

\* The characters typed into the search box.
SearchChars == {"Q", "k", "7"}

\* ---------------------------------------------------- projections of procs

\* try_kill: the processes the search text selects, in the order of procs.
try_kill_processes ==
    LET query == to_lowercase(search_query)
    IN  SelectSeq(procs, LAMBDA p :
            contains(to_lowercase(p.name), query) \/ contains(to_string(p.pid), query))

\* next: the number of processes the search text selects.
next_count ==
    LET query == to_lowercase(search_query)
    IN  Len(SelectSeq(procs, LAMBDA p :
            contains(to_lowercase(p.name), query) \/ contains(to_string(p.pid), query)))

\* previous: the number of processes the search text selects.
previous_count ==
    LET query == to_lowercase(search_query)
    IN  Len(SelectSeq(procs, LAMBDA p :
            contains(to_lowercase(p.name), query) \/ contains(to_string(p.pid), query)))

SortColumn == {"Pid", "Name", "User", "Cpu", "Mem"}

\* A descending sort made by sorting ascending and reversing the rows,
\* instead of reversing the comparator's result.
draw_processes_reverse_rows(sort_col, sort_desc) ==
    LET query == to_lowercase(search_query)
        shown == SelectSeq(procs, LAMBDA p :
            contains(to_lowercase(p.name), query) \/ contains(to_string(p.pid), query))
        ord(a, b) ==
            CASE sort_col = "Pid"  -> NumCmp(a.pid, b.pid)
              [] sort_col = "Name" -> StrCmp(a.name, b.name)
              [] sort_col = "User" -> StrCmp(a.user, b.user)
              [] sort_col = "Cpu"  -> NumCmp(a.cpu, b.cpu)
              [] sort_col = "Mem"  -> NumCmp(a.mem_bytes, b.mem_bytes)
        asc == slice_sort_by(shown,
                  [a, b \in 1..Len(shown) |-> ord(shown[a], shown[b])])
    IN  IF sort_desc THEN [i \in 1..Len(asc) |-> asc[Len(asc) + 1 - i]] ELSE asc

\* draw_processes: the rows of the table the cursor indexes, for the sort
\* column and direction the App holds: the selected processes, sorted.
draw_processes(sort_col, sort_desc) ==
    LET query == to_lowercase(search_query)
        shown == SelectSeq(procs, LAMBDA p :
            contains(to_lowercase(p.name), query) \/ contains(to_string(p.pid), query))
        ord(a, b) ==
            CASE sort_col = "Pid"  -> NumCmp(a.pid, b.pid)
              [] sort_col = "Name" -> StrCmp(a.name, b.name)
              [] sort_col = "User" -> StrCmp(a.user, b.user)
              [] sort_col = "Cpu"  -> NumCmp(a.cpu, b.cpu)
              [] sort_col = "Mem"  -> NumCmp(a.mem_bytes, b.mem_bytes)
    IN  slice_sort_by(shown,
            [a, b \in 1..Len(shown) |->
                IF sort_desc THEN 0 - ord(shown[a], shown[b])
                ELSE ord(shown[a], shown[b])])

\* ------------------------------------------------------------ App methods

\* SysCache::refresh, the process list: the provider's table, sorted by the
\* sort key of the moment.
refresh ==
    \E infos \in ProviderTables : procs' = top_processes(infos, sort_by)

\* A tick that also puts the cursor back on row 0.
on_tick_select_first ==
    /\ refresh
    /\ selected' = 0
    /\ UNCHANGED <<sort_by, search_query, input_mode, popup, should_quit>>
    /\ kill_calls' = <<>>
    /\ killed' = <<>>

\* App::on_tick
on_tick ==
    /\ refresh
    /\ UNCHANGED <<sort_by, selected, search_query, input_mode, popup, should_quit>>
    /\ kill_calls' = <<>>
    /\ killed' = <<>>

\* App::request_quit, and the quit arms of on_key
request_quit ==
    /\ should_quit' = TRUE
    /\ UNCHANGED <<procs, sort_by, selected, search_query, input_mode, popup>>
    /\ kill_calls' = <<>>
    /\ killed' = <<>>

\* an arm of on_key that does nothing
ignore_key ==
    /\ UNCHANGED appvars
    /\ kill_calls' = <<>>
    /\ killed' = <<>>

\* A toggle_sort of two keys only, Cpu and Memory.
toggle_sort_two_keys ==
    /\ sort_by' = (IF sort_by = "Cpu" THEN "Memory" ELSE "Cpu")
    /\ UNCHANGED <<procs, selected, search_query, input_mode, popup, should_quit>>
    /\ kill_calls' = <<>>
    /\ killed' = <<>>

\* App::toggle_sort
toggle_sort ==
    /\ sort_by' = CASE sort_by = "Cpu"    -> "Memory"
                    [] sort_by = "Memory" -> "Pid"
                    [] sort_by = "Pid"    -> "Cpu"
    /\ UNCHANGED <<procs, selected, search_query, input_mode, popup, should_quit>>
    /\ kill_calls' = <<>>
    /\ killed' = <<>>

\* App::open_help
open_help ==
    /\ popup' = PopupHelp
    /\ input_mode' = "Popup"
    /\ UNCHANGED <<procs, sort_by, selected, search_query, should_quit>>
    /\ kill_calls' = <<>>
    /\ killed' = <<>>

\* A kill request that kills at once, without the confirmation.
try_kill_immediately ==
    /\ LET processes == try_kill_processes
       IN  IF selected # None /\ selected < Len(processes)
           THEN /\ kill_calls' = <<processes[selected + 1].pid>>
                /\ killed' = <<processes[selected + 1].pid>>
           ELSE /\ kill_calls' = <<>>
                /\ killed' = <<>>
    /\ UNCHANGED appvars

\* App::try_kill
try_kill ==
    /\ LET processes == try_kill_processes
       IN  IF selected # None /\ selected < Len(processes)
           THEN /\ popup' = PopupKill(processes[selected + 1].pid,
                                      processes[selected + 1].name)
                /\ input_mode' = "Popup"
           ELSE UNCHANGED <<popup, input_mode>>
    /\ UNCHANGED <<procs, sort_by, selected, search_query, should_quit>>
    /\ kill_calls' = <<>>
    /\ killed' = <<>>

\* A kill that is sent without looking the process up.
kill_process_unchecked(pid) == <<pid>>

\* SysCache::kill_process: the pids Process::kill is sent to; the process is
\* looked up in the table of the last refresh.
kill_process(pid) == IF pid \in PidsOf(procs) THEN <<pid>> ELSE <<>>

\* A close that returns to Normal mode and keeps the popup.
close_popup_keep_pending ==
    /\ input_mode' = "Normal"
    /\ UNCHANGED <<popup, procs, sort_by, selected, search_query, should_quit>>
    /\ kill_calls' = <<>>
    /\ killed' = <<>>

\* A close that clears the popup and stays in Popup mode.
close_popup_stay_modal ==
    /\ popup' = PopupNone
    /\ UNCHANGED <<procs, sort_by, selected, search_query, input_mode, should_quit>>
    /\ kill_calls' = <<>>
    /\ killed' = <<>>

\* App::close_popup
close_popup ==
    /\ popup' = PopupNone
    /\ input_mode' = "Normal"
    /\ UNCHANGED <<procs, sort_by, selected, search_query, should_quit>>
    /\ kill_calls' = <<>>
    /\ killed' = <<>>

\* confirm_popup that closes the modal and forgets the kill.
confirm_popup_without_kill ==
    /\ kill_calls' = <<>>
    /\ killed' = <<>>
    /\ popup' = PopupNone
    /\ input_mode' = "Normal"
    /\ UNCHANGED <<procs, sort_by, selected, search_query, should_quit>>

\* confirm_popup that kills the process at the cursor at confirm time.
confirm_popup_at_cursor ==
    /\ LET processes == try_kill_processes
       IN  IF popup.kind = "Kill" /\ selected # None /\ selected < Len(processes)
           THEN /\ kill_calls' = <<processes[selected + 1].pid>>
                /\ killed' = <<processes[selected + 1].pid>>
           ELSE /\ kill_calls' = <<>>
                /\ killed' = <<>>
    /\ popup' = PopupNone
    /\ input_mode' = "Normal"
    /\ UNCHANGED <<procs, sort_by, selected, search_query, should_quit>>

\* App::confirm_popup (close_popup included)
confirm_popup ==
    /\ IF popup.kind = "Kill"
       THEN /\ kill_calls' = <<popup.pid>>
            /\ killed' = kill_process(popup.pid)
       ELSE /\ kill_calls' = <<>>
            /\ killed' = <<>>
    /\ popup' = PopupNone
    /\ input_mode' = "Normal"
    /\ UNCHANGED <<procs, sort_by, selected, search_query, should_quit>>

\* next without the early return on an empty list.
next_unguarded ==
    /\ LET count == next_count
       IN  selected' = IF selected = None THEN 0
                       ELSE IF selected >= count - 1 THEN 0
                       ELSE selected + 1
    /\ UNCHANGED <<procs, sort_by, search_query, input_mode, popup, should_quit>>
    /\ kill_calls' = <<>>
    /\ killed' = <<>>

\* App::next
next ==
    /\ LET count == next_count
       IN  IF count = 0 THEN UNCHANGED selected
           ELSE selected' = IF selected = None THEN 0
                            ELSE IF selected >= count - 1 THEN 0
                            ELSE selected + 1
    /\ UNCHANGED <<procs, sort_by, search_query, input_mode, popup, should_quit>>
    /\ kill_calls' = <<>>
    /\ killed' = <<>>

\* previous that stops at the first row.
previous_clamped ==
    /\ LET count == previous_count
       IN  IF count = 0 THEN UNCHANGED selected
           ELSE selected' = IF selected = None THEN 0
                            ELSE IF selected = 0 THEN 0
                            ELSE selected - 1
    /\ UNCHANGED <<procs, sort_by, search_query, input_mode, popup, should_quit>>
    /\ kill_calls' = <<>>
    /\ killed' = <<>>

\* App::previous
previous ==
    /\ LET count == previous_count
       IN  IF count = 0 THEN UNCHANGED selected
           ELSE selected' = IF selected = None THEN 0
                            ELSE IF selected = 0 THEN count - 1
                            ELSE selected - 1
    /\ UNCHANGED <<procs, sort_by, search_query, input_mode, popup, should_quit>>
    /\ kill_calls' = <<>>
    /\ killed' = <<>>

\* on_key, InputMode::Editing: String::pop
search_pop ==
    /\ search_query' = IF search_query = <<>> THEN <<>>
                       ELSE SubSeq(search_query, 1, Len(search_query) - 1)
    /\ UNCHANGED <<procs, sort_by, selected, input_mode, popup, should_quit>>
    /\ kill_calls' = <<>>
    /\ killed' = <<>>

\* A push that puts the character at the front of the text.
search_push_front(c) ==
    /\ search_query' = <<c>> \o search_query
    /\ UNCHANGED <<procs, sort_by, selected, input_mode, popup, should_quit>>
    /\ kill_calls' = <<>>
    /\ killed' = <<>>

\* on_key, InputMode::Editing: String::push
search_push(c) ==
    /\ search_query' = Append(search_query, c)
    /\ UNCHANGED <<procs, sort_by, selected, input_mode, popup, should_quit>>
    /\ kill_calls' = <<>>
    /\ killed' = <<>>

\* on_key, InputMode::Normal or Editing: input_mode = ..
set_input_mode(mode) ==
    /\ input_mode' = mode
    /\ UNCHANGED <<procs, sort_by, selected, search_query, popup, should_quit>>
    /\ kill_calls' = <<>>
    /\ killed' = <<>>

\* An on_key whose Popup mode hands every key that neither confirms nor
\* cancels to the Normal-mode bindings.
on_key_modal_passthrough(key) ==
    CASE input_mode = "Editing" ->
            CASE key = "Esc"          -> set_input_mode("Normal")
              [] key = "Enter"        -> set_input_mode("Normal")
              [] key = "Backspace"    -> search_pop
              [] IsChar(key)          -> search_push(key)
              [] key = "Ctrl-c"       -> search_push("c")
              [] OTHER                -> ignore_key
      [] input_mode = "Popup" /\ key \in {"Esc", "n", "N"}   -> close_popup
      [] input_mode = "Popup" /\ key \in {"Enter", "y", "Y"} -> confirm_popup
      [] OTHER ->
            CASE key \in {"q", "Q"}   -> request_quit
              [] key = "Ctrl-c"       -> request_quit
              [] key = "Down"         -> next
              [] key = "Up"           -> previous
              [] key = "k"            -> try_kill
              [] key = "/"            -> set_input_mode("Editing")
              [] key \in {"Tab", "s"} -> toggle_sort
              [] key = "?"            -> open_help
              [] OTHER                -> ignore_key

\* App::on_key
on_key(key) ==
    CASE input_mode = "Normal" ->
            CASE key \in {"q", "Q"}   -> request_quit
              [] key = "Ctrl-c"       -> request_quit
              [] key = "Down"         -> next
              [] key = "Up"           -> previous
              [] key = "k"            -> try_kill
              [] key = "/"            -> set_input_mode("Editing")
              [] key \in {"Tab", "s"} -> toggle_sort
              [] key = "?"            -> open_help
              [] OTHER                -> ignore_key
      [] input_mode = "Editing" ->
            CASE key = "Esc"          -> set_input_mode("Normal")
              [] key = "Enter"        -> set_input_mode("Normal")
              [] key = "Backspace"    -> search_pop
              [] IsChar(key)          -> search_push(key)
              [] key = "Ctrl-c"       -> search_push("c")
              [] OTHER                -> ignore_key
      [] input_mode = "Popup" ->
            CASE key \in {"Esc", "n", "N"}   -> close_popup
              [] key \in {"Enter", "y", "Y"} -> confirm_popup
              [] OTHER                       -> ignore_key

\* ------------------------------------------- SysCache::refresh, the rates

\* Largest cumulative byte count an interface reports.
MaxCounter == 1

\* Most refreshes the rates are followed over.
MaxRefreshes == 4

\* The interfaces of the host's network list.
Interfaces == {"eth0", "lo"}

\* Networks: per interface, NetworkData::total_received and
\* NetworkData::total_transmitted as the provider reports them. The counters
\* are the host's: they may stand still, grow, or fall back (a reset).
NetworkTables ==
    [Interfaces -> [total_received : 0..MaxCounter, total_transmitted : 0..MaxCounter]]

RECURSIVE fold(_, _)
\* Iterator::fold((0, 0), ..) of refresh, one component: the sum of f over S.
fold(S, f) ==
    IF S = {} THEN 0
    ELSE LET x == CHOOSE x \in S : TRUE
         IN  f[x] + fold(S \ {x}, f)

\* refresh: current_rx, the sum of total_received over the interfaces.
current_rx(nets) == fold(Interfaces, [i \in Interfaces |-> nets[i].total_received])

\* refresh: current_tx, the sum of total_transmitted over the interfaces.
current_tx(nets) == fold(Interfaces, [i \in Interfaces |-> nets[i].total_transmitted])

\* A subtraction that does not saturate: the difference itself.
plain_sub(a, b) == a - b

\* u64::saturating_sub
saturating_sub(a, b) == IF a > b THEN a - b ELSE 0

\* The rate without the guard on the previous counter.
network_rate_unguarded(rate, prev, current) == saturating_sub(current, prev)

\* The rate without the subtraction.
network_rate_no_subtract(rate, prev, current) == IF prev > 0 THEN current ELSE rate

\* refresh: `if self.prev_rx > 0 { self.rx_rate = current_rx.saturating_sub(
\* self.prev_rx); }`, and the same for tx. The rate stays as it is when the
\* previous counter is 0.
network_rate(rate, prev, current) ==
    IF prev > 0 THEN saturating_sub(current, prev) ELSE rate

\* SysCache::refresh, the network rates, when the provider reports nets. The
\* source text holds two revisions of the end of refresh; the rates are those
\* of the revision that keeps prev_rx and prev_tx (the later lines, which
\* store the sum of NetworkData::received, belong with the two-argument
\* top_processes call that no definition matches).
refresh_networks(nets) ==
    /\ networks' = nets
    /\ networks_before' = networks
    /\ rx_rate' = network_rate(rx_rate, prev_rx, current_rx(nets))
    /\ tx_rate' = network_rate(tx_rate, prev_tx, current_tx(nets))
    /\ prev_rx' = current_rx(nets)
    /\ prev_tx' = current_tx(nets)
    /\ refreshes' = refreshes + 1

\* SysCache::new before its call of refresh: rates and previous counters 0.
NetIdle ==
    /\ networks = [i \in Interfaces |-> [total_received |-> 0, total_transmitted |-> 0]]
    /\ networks_before = networks
    /\ rx_rate = 0
    /\ tx_rate = 0
    /\ prev_rx = 0
    /\ prev_tx = 0
    /\ refreshes = 0

\* ------------------------------------------------------- the history rings

\* Most ticks the rings are followed over.
MaxTicks == 150

\* vec![0; 100]: the length the three rings are made with.
HistCapacity == 100

\* The counter streams a host produces, by number.
Streams == {1, 2, 3}

\* The interfaces at the n-th refresh of a stream: counters that grow by a
\* larger amount at every refresh, so that no two rates are the same.
StreamTable(s, n) ==
    [i \in Interfaces |->
        IF i = "lo" THEN [total_received |-> s * n, total_transmitted |-> s * n]
        ELSE [total_received |-> n * n, total_transmitted |-> 2 * n * n]]

\* global_cpu_info().cpu_usage() at the n-th refresh of a stream, in tenths
\* of a percent (0.0 to 100.0).
StreamCpu(s, n) == (37 * n * s) % 1001

\* `self.sys.cpu_global as u64`: the whole percents; the fraction is dropped.
as_u64(tenths) == tenths \div 10

\* A push that evicts nothing.
history_push_no_evict(ring, value) == Append(ring, value)

\* on_tick: `ring.remove(0); ring.push(value)`
history_push(ring, value) == Append(Tail(ring), value)

\* App::on_tick, the metrics: refresh, then one push on each ring.
on_tick_metrics(nets, cpu) ==
    /\ refresh_networks(nets)
    /\ cpu_global' = cpu
    /\ cpu_history' = history_push(cpu_history, as_u64(cpu_global'))
    /\ net_rx_history' = history_push(net_rx_history, rx_rate')
    /\ net_tx_history' = history_push(net_tx_history, tx_rate')
    /\ samples' = Append(samples, [cpu |-> cpu_global', rx |-> rx_rate', tx |-> tx_rate'])
    /\ UNCHANGED stream

\* App::new: three rings of HistCapacity zeros.
HistIdle ==
    /\ cpu_global = 0
    /\ cpu_history = [i \in 1..HistCapacity |-> 0]
    /\ net_rx_history = [i \in 1..HistCapacity |-> 0]
    /\ net_tx_history = [i \in 1..HistCapacity |-> 0]
    /\ samples = <<>>
    /\ stream = 1

\* spawn_events has not been called: nothing sent, nothing handled.
QueueIdle ==
    /\ channel = <<>>
    /\ producer_pc = "poll"
    /\ polled_key = "none"
    /\ poll_result = "none"
    /\ polls = 0
    /\ sent = <<>>
    /\ handled = <<>>
    /\ running = TRUE

\* format_duration_secs has not been called.
FmtIdle ==
    /\ total_secs = 0
    /\ definition = 1
    /\ rendered = <<>>

\* ------------------------------------------------------------ the main loop

\* A tick that is handled although the quit flag is set.
Tick_after_quit ==
    /\ on_tick
    /\ last' = "Tick"
    /\ UNCHANGED <<treevars, netvars, histvars, queuevars, fmtvars>>

\* main: an Event::Tick is received.
Tick ==
    /\ ~should_quit
    /\ on_tick
    /\ last' = "Tick"
    /\ UNCHANGED <<treevars, netvars, histvars, queuevars, fmtvars>>

\* main: an Event::Input(key) is received; Ctrl-c is caught before on_key.
\* The input thread sends a Tick behind every Input, so an Input is never
\* received right after another Input. While the search box is open the
\* operator types search characters only, and no more than MaxQuery of them.
Input(key) ==
    /\ ~should_quit
    /\ last \in {"Init", "Tick"}
    /\ (input_mode = "Editing" /\ IsChar(key))
          => (key \in SearchChars /\ Len(search_query) < MaxQuery)
    /\ IF key = "Ctrl-c" THEN request_quit ELSE on_key(key)
    /\ last' = key
    /\ UNCHANGED <<treevars, netvars, histvars, queuevars, fmtvars>>

\* App::new and SysCache::new, followed by main's first on_tick: the list of
\* the first refreshes, sorted by Cpu; the cursor on row 0.
Init ==
    /\ \E infos \in ProviderTables : procs = top_processes(infos, "Cpu")
    /\ sort_by = "Cpu"
    /\ selected = 0
    /\ search_query = <<>>
    /\ input_mode = "Normal"
    /\ popup = PopupNone
    /\ should_quit = FALSE
    /\ kill_calls = <<>>
    /\ killed = <<>>
    /\ last = "Init"
    /\ flat = <<>>
    /\ children_map = <<>>
    /\ roots = <<>>
    /\ stack = <<>>
    /\ result = <<>>
    /\ pc = "idle"
    /\ NetIdle
    /\ HistIdle
    /\ QueueIdle
    /\ FmtIdle

Next ==
    \/ Tick
    \/ \E key \in Keys : Input(key)

Spec == Init /\ [][Next]_vars

\* ---------------------------------------------------- build_process_tree

\* Largest number of append_node calls the call stack holds at once.
StackLimit == 6

\* A pid that no record of a tree table has: a parent that is not listed.
ForeignPid == MaxPid + 1

\* The ProcessInfo of pid with the given parent, as top_processes makes it.
TreeInfo(pid, parent) ==
    [pid |-> pid, name |-> <<"k">>, user |-> <<"r", "o", "o", "t">>,
     cpu |-> 0, mem_bytes |-> 0, parent |-> parent, indent |-> 0]

\* The lists top_processes hands to build_process_tree: any set of pids, each
\* with no parent, a listed or unlisted pid (itself included) as its parent;
\* sorted by pid.
TreeTables ==
    UNION { { LET pids == [k \in 1..Cardinality(S) |->
                            CHOOSE x \in S : Cardinality({y \in S : y < x}) = k - 1]
              IN  [k \in 1..Cardinality(S) |-> TreeInfo(pids[k], par[pids[k]])] :
              par \in [S -> {None} \cup (1..ForeignPid)] } :
            S \in SUBSET (1..MaxPid) }

\* build_process_tree: process_map, pid -> record.
process_map ==
    [pid \in PidsOf(flat) |-> flat[CHOOSE i \in 1..Len(flat) : flat[i].pid = pid]]

\* build_process_tree: children_map after the loop over flat; under each
\* parent value the pids that name it, in the order of flat.
build_children_map(f) ==
    [parent \in {f[i].parent : i \in 1..Len(f)} |->
        LET kids == SelectSeq(f, LAMBDA p : p.parent = parent)
        IN  [k \in 1..Len(kids) |-> kids[k].pid]]

\* roots in descending pid order.
find_roots_descending(f) ==
    LET pids == {f[i].pid : i \in 1..Len(f)}
        rs   == SelectSeq(f, LAMBDA p : p.parent = None \/ p.parent \notin pids)
    IN  slice_sort_by([k \in 1..Len(rs) |-> rs[k].pid],
                      [a, b \in 1..Len(rs) |-> NumCmp(rs[b].pid, rs[a].pid)])

\* roots that also take a record that names itself as its parent.
find_roots_self_parent(f) ==
    LET pids == {f[i].pid : i \in 1..Len(f)}
        rs   == SelectSeq(f, LAMBDA p :
                    p.parent = None \/ p.parent = p.pid \/ p.parent \notin pids)
    IN  slice_sort_by([k \in 1..Len(rs) |-> rs[k].pid],
                      [a, b \in 1..Len(rs) |-> NumCmp(rs[a].pid, rs[b].pid)])

\* build_process_tree: the roots, the pids whose parent is None or not a key
\* of process_map, sorted.
find_roots(f) ==
    LET pids == {f[i].pid : i \in 1..Len(f)}
        rs   == SelectSeq(f, LAMBDA p : p.parent = None \/ p.parent \notin pids)
    IN  slice_sort_by([k \in 1..Len(rs) |-> rs[k].pid],
                      [a, b \in 1..Len(rs) |-> NumCmp(rs[a].pid, rs[b].pid)])

\* append_node called for a child with the depth of its parent.
child_depth_same(depth) == depth

\* append_node: the depth a child is called with.
child_depth(depth) == depth + 1

\* append_node(pid, depth) up to its loop: the record is pushed with its
\* indent and the call waits on its sorted children. A pid that is no key
\* of process_map returns at once.
append_node(pid, depth) ==
    IF pid \in DOMAIN process_map
    THEN /\ result' = Append(result, [process_map[pid] EXCEPT !.indent = depth])
         /\ LET kids == IF pid \in DOMAIN children_map
                         THEN children_map[pid] ELSE <<>>
                sorted_kids == slice_sort_by(kids,
                                   [a, b \in 1..Len(kids) |-> NumCmp(kids[a], kids[b])])
            IN  stack' = <<[pid |-> pid, depth |-> depth, kids |-> sorted_kids]>>
                            \o (IF stack = <<>> THEN <<>>
                                ELSE <<[Head(stack) EXCEPT !.kids = Tail(@)]>>
                                        \o Tail(stack))
    ELSE /\ result' = result
         /\ stack' = IF stack = <<>> THEN <<>>
                     ELSE <<[Head(stack) EXCEPT !.kids = Tail(@)]>> \o Tail(stack)

\* build_process_tree, part 1: the maps and the sorted roots.
BuildMaps ==
    /\ pc = "build"
    /\ children_map' = build_children_map(flat)
    /\ roots' = find_roots(flat)
    /\ pc' = "dfs"
    /\ UNCHANGED <<flat, stack, result>>
    /\ UNCHANGED <<appvars, outvars, last, netvars, histvars, queuevars, fmtvars>>

\* build_process_tree, part 2: the loop over the roots calls append_node.
CallRoot ==
    /\ pc = "dfs"
    /\ stack = <<>>
    /\ roots # <<>>
    /\ append_node(Head(roots), 0)
    /\ roots' = Tail(roots)
    /\ UNCHANGED <<flat, children_map, pc>>
    /\ UNCHANGED <<appvars, outvars, last, netvars, histvars, queuevars, fmtvars>>

\* append_node: the loop over sorted_kids calls append_node for the next kid.
CallKid ==
    /\ pc = "dfs"
    /\ stack # <<>>
    /\ Head(stack).kids # <<>>
    /\ Len(stack) < StackLimit
    /\ append_node(Head(Head(stack).kids), child_depth(Head(stack).depth))
    /\ UNCHANGED <<flat, children_map, roots, pc>>
    /\ UNCHANGED <<appvars, outvars, last, netvars, histvars, queuevars, fmtvars>>

\* append_node: the loop over sorted_kids is over, the call returns.
Return ==
    /\ pc = "dfs"
    /\ stack # <<>>
    /\ Head(stack).kids = <<>>
    /\ stack' = Tail(stack)
    /\ UNCHANGED <<flat, children_map, roots, result, pc>>
    /\ UNCHANGED <<appvars, outvars, last, netvars, histvars, queuevars, fmtvars>>

\* build_process_tree: the loop over the roots is over, result is returned.
Finish ==
    /\ pc = "dfs"
    /\ stack = <<>>
    /\ roots = <<>>
    /\ pc' = "done"
    /\ UNCHANGED <<flat, children_map, roots, stack, result>>
    /\ UNCHANGED <<appvars, outvars, last, netvars, histvars, queuevars, fmtvars>>

\* top_processes with ProcessSort::Tree: build_process_tree is called with
\* the pid-sorted list.
InitTree ==
    /\ flat \in TreeTables
    /\ children_map = <<>>
    /\ roots = <<>>
    /\ stack = <<>>
    /\ result = <<>>
    /\ pc = "build"
    /\ procs = <<>>
    /\ sort_by = "Tree"
    /\ selected = 0
    /\ search_query = <<>>
    /\ input_mode = "Normal"
    /\ popup = PopupNone
    /\ should_quit = FALSE
    /\ kill_calls = <<>>
    /\ killed = <<>>
    /\ last = "Init"
    /\ NetIdle
    /\ HistIdle
    /\ QueueIdle
    /\ FmtIdle

NextTree == BuildMaps \/ CallRoot \/ CallKid \/ Return \/ Finish

\* The function runs to its end once called: no step of it waits on anything.
SpecTree == InitTree /\ [][NextTree]_vars /\ WF_vars(NextTree)

\* ------------------------------------------------ the rates, refresh by refresh

\* The interaction state and the tree builder at rest.
AppIdle ==
    /\ procs = <<>>
    /\ sort_by = "Cpu"
    /\ selected = 0
    /\ search_query = <<>>
    /\ input_mode = "Normal"
    /\ popup = PopupNone
    /\ should_quit = FALSE
    /\ kill_calls = <<>>
    /\ killed = <<>>
    /\ last = "Init"
    /\ flat = <<>>
    /\ children_map = <<>>
    /\ roots = <<>>
    /\ stack = <<>>
    /\ result = <<>>
    /\ pc = "idle"

\* SysCache::refresh is called (by SysCache::new the first time, by on_tick
\* after that) and the provider reports any counters.
NetRefresh ==
    /\ refreshes < MaxRefreshes
    /\ \E nets \in NetworkTables : refresh_networks(nets)
    /\ UNCHANGED <<appvars, outvars, last, treevars, histvars, queuevars, fmtvars>>

\* SysCache::new has set its fields and is about to call refresh.
InitNet == AppIdle /\ NetIdle /\ HistIdle /\ QueueIdle /\ FmtIdle

NextNet == NetRefresh

SpecNet == InitNet /\ [][NextNet]_vars

\* ------------------------------------------------- the rings, tick by tick

\* main: an Event::Tick (or the on_tick before the loop); the provider
\* reports the next table of the host's stream.
HistTick ==
    /\ Len(samples) < MaxTicks
    /\ on_tick_metrics(StreamTable(stream, refreshes + 1), StreamCpu(stream, refreshes + 1))
    /\ UNCHANGED <<appvars, outvars, last, treevars, queuevars, fmtvars>>

\* App::new: SysCache::new has refreshed once, on the first table of the
\* host's stream; the rings hold zeros.
InitHist ==
    /\ AppIdle
    /\ stream \in Streams
    /\ networks = StreamTable(stream, 1)
    /\ networks_before = [i \in Interfaces |-> [total_received |-> 0, total_transmitted |-> 0]]
    /\ rx_rate = 0
    /\ tx_rate = 0
    /\ prev_rx = current_rx(networks)
    /\ prev_tx = current_tx(networks)
    /\ refreshes = 1
    /\ cpu_global = StreamCpu(stream, 1)
    /\ cpu_history = [i \in 1..HistCapacity |-> 0]
    /\ net_rx_history = [i \in 1..HistCapacity |-> 0]
    /\ net_tx_history = [i \in 1..HistCapacity |-> 0]
    /\ samples = <<>>
    /\ QueueIdle
    /\ FmtIdle

NextHist == HistTick

SpecHist == InitHist /\ [][NextHist]_vars

\* --------------------------------------- spawn_events and the main loop

\* Most calls of event::poll the input thread is followed over.
MaxPolls == 3

\* The keys the operator presses while the queue is followed.
QueueKeys == {"s", "q", "Ctrl-c"}

\* How event::poll(tick_rate) and event::read end: the poll times out, or an
\* event is ready and it is a key, or it is another event (a resize, the
\* mouse).
PollOutcomes == {"timeout", "other"} \cup QueueKeys

\* A channel that hands out the newest message first.
channel_send_front(ch, event) == <<event>> \o ch

\* mpsc::Sender::send: the message goes behind those already in the channel.
channel_send(ch, event) == Append(ch, event)

\* A Tick that is sent only when the poll brought no key.
after_input_poll == "poll"

\* spawn_events: `event_tx.send(Event::Tick)` stands behind the `if`, so it
\* is the statement that follows the send of an Input.
after_input == "send_tick"

\* main: the arms of `match rx.recv()` for an event.
dispatch(event) ==
    IF event = "Tick" THEN on_tick
    ELSE IF event = "Ctrl-c" THEN request_quit
    ELSE on_key(event)

\* The input thread: event::poll returns, and event::read if an event is
\* ready.
Poll ==
    /\ running
    /\ producer_pc = "poll"
    /\ polls < MaxPolls
    /\ polls' = polls + 1
    /\ \E outcome \in PollOutcomes :
          /\ poll_result' = IF outcome \in QueueKeys THEN "key" ELSE outcome
          /\ polled_key' = IF outcome \in QueueKeys THEN outcome ELSE "none"
          /\ producer_pc' = IF outcome \in QueueKeys THEN "send_input" ELSE "send_tick"
    /\ UNCHANGED <<channel, sent, handled, running>>
    /\ UNCHANGED <<appvars, outvars, last, treevars, netvars, histvars, fmtvars>>

\* The input thread: event::poll returns an error; unwrap panics, the thread
\* ends and the last Sender of the channel is dropped.
PollFails ==
    /\ running
    /\ producer_pc = "poll"
    /\ producer_pc' = "dead"
    /\ UNCHANGED <<channel, polled_key, poll_result, polls, sent, handled, running>>
    /\ UNCHANGED <<appvars, outvars, last, treevars, netvars, histvars, fmtvars>>

\* The input thread: event_tx.send(Event::Input(key))
SendInput ==
    /\ running
    /\ producer_pc = "send_input"
    /\ channel' = channel_send(channel, polled_key)
    /\ sent' = Append(sent, polled_key)
    /\ producer_pc' = after_input
    /\ UNCHANGED <<polled_key, poll_result, polls, handled, running>>
    /\ UNCHANGED <<appvars, outvars, last, treevars, netvars, histvars, fmtvars>>

\* The input thread: event_tx.send(Event::Tick)
SendTick ==
    /\ running
    /\ producer_pc = "send_tick"
    /\ channel' = channel_send(channel, "Tick")
    /\ sent' = Append(sent, "Tick")
    /\ producer_pc' = "poll"
    /\ UNCHANGED <<polled_key, poll_result, polls, handled, running>>
    /\ UNCHANGED <<appvars, outvars, last, treevars, netvars, histvars, fmtvars>>

\* main: rx.recv() returns an event; it is handled, and the loop is left if
\* the quit flag is set.
Recv ==
    /\ running
    /\ channel # <<>>
    /\ dispatch(Head(channel))
    /\ last' = Head(channel)
    /\ channel' = Tail(channel)
    /\ handled' = Append(handled, Head(channel))
    /\ running' = ~should_quit'
    /\ UNCHANGED <<producer_pc, polled_key, poll_result, polls, sent>>
    /\ UNCHANGED <<treevars, netvars, histvars, fmtvars>>

\* main: rx.recv() returns Err, every Sender being dropped and the channel
\* empty: `Err(_) => break`.
RecvDisconnected ==
    /\ running
    /\ channel = <<>>
    /\ producer_pc = "dead"
    /\ running' = FALSE
    /\ UNCHANGED <<channel, producer_pc, polled_key, poll_result, polls, sent, handled>>
    /\ UNCHANGED <<appvars, outvars, last, treevars, netvars, histvars, fmtvars>>

NextQueue == Poll \/ PollFails \/ SendInput \/ SendTick \/ Recv \/ RecvDisconnected

\* main from `let rx = spawn_events(tick_rate)` on: the input thread and the
\* main loop, the channel between them.
SpecQueue == Init /\ [][NextQueue]_vars

\* ---------------------------------------------------- format_duration_secs

\* Largest number of seconds formatted, next to a few longer durations.
MaxSecs == 3661

\* The durations formatted: every one up to MaxSecs, and ten hours, a second
\* less than a hundred hours, and a hundred hours.
Durations == (0..MaxSecs) \cup {36000, 359999, 360000}

\* format!("{:02}", n): the decimal digits of n, a 0 in front of a single one.
pad2(n) == IF n < 10 THEN <<"0">> \o to_string(n) ELSE to_string(n)

\* format_duration_secs as defined first in sys.rs: format!("{}h {}m", ..)
format_duration_secs_h_m(secs) ==
    LET hours == secs \div 3600
        mins  == (secs % 3600) \div 60
    IN  to_string(hours) \o <<"h", " ">> \o to_string(mins) \o <<"m">>

\* format_duration_secs as defined second in sys.rs:
\* format!("{:02}:{:02}:{:02}", ..)
format_duration_secs(secs) ==
    LET hours == secs \div 3600
        mins  == (secs % 3600) \div 60
        s     == secs % 60
    IN  pad2(hours) \o <<":">> \o pad2(mins) \o <<":">> \o pad2(s)

\* sys.rs defines format_duration_secs twice; which of the two a build calls
\* is not fixed by the source.
format_duration_secs_built(which, secs) ==
    IF which = 1 THEN format_duration_secs_h_m(secs) ELSE format_duration_secs(secs)

\* draw: `format_duration_secs(app.sys().uptime)`
Format ==
    /\ rendered = <<>>
    /\ rendered' = format_duration_secs_built(definition, total_secs)
    /\ UNCHANGED <<total_secs, definition>>
    /\ UNCHANGED <<appvars, outvars, last, treevars, netvars, histvars, queuevars>>

\* The function is about to be called with any duration, in a build with
\* either definition.
InitFmt ==
    /\ AppIdle
    /\ NetIdle
    /\ HistIdle
    /\ QueueIdle
    /\ total_secs \in Durations
    /\ definition \in {1, 2}
    /\ rendered = <<>>

NextFmt == Format

SpecFmt == InitFmt /\ [][NextFmt]_vars

\* ----------------------------------------------------------------- claims

\* The projection the controller navigates: the processes of the latest
\* snapshot that match the search text, in the snapshot's order.
Projection ==
    SelectSeq(procs, LAMBDA p :
        \/ contains(to_lowercase(p.name), to_lowercase(search_query))
        \/ contains(to_string(p.pid), to_lowercase(search_query)))

CursorValid == selected # None /\ selected >= 0 /\ selected < Len(Projection)

CancelKeys  == {"Esc", "n", "N"}
ConfirmKeys == {"Enter", "y", "Y"}

C2_KillCapturesDrawnRow ==
    [][ (input_mode = "Normal" /\ last' = "k")
            => \A sort_col \in SortColumn, sort_desc \in BOOLEAN :
                 LET rows == draw_processes(sort_col, sort_desc)
                 IN  IF selected # None /\ selected < Len(rows)
                     THEN /\ input_mode' = "Popup"
                          /\ popup' = PopupKill(rows[selected + 1].pid,
                                                rows[selected + 1].name)
                     ELSE UNCHANGED <<input_mode, popup>>
      ]_vars

\* C3: the pid of a pending kill is fixed at request time. A tick while the
\* confirmation is open leaves the pending pid and name (and the mode) as
\* they are, and a confirm calls kill with exactly the pending pid, whatever
\* process is at the cursor by then.
C3_PendingPidFixed ==
    [][ /\ (popup.kind = "Kill" /\ last' = "Tick")
            => (popup' = popup /\ input_mode' = input_mode)
        /\ (input_mode = "Popup" /\ popup.kind = "Kill" /\ last' \in ConfirmKeys)
            => kill_calls' = <<popup.pid>>
      ]_vars

\* C3 witness: a confirm has killed a pid that is not the pid at the cursor
\* of the list as it is now (ticks changed the list while the modal was open).
C3_Witness ==
    /\ last \in ConfirmKeys
    /\ Len(kill_calls) = 1
    /\ CursorValid
    /\ Projection[selected + 1].pid # kill_calls[1]

\* C4 (as claimed): selection movement clamps. With a non-empty projection of
\* length L and the cursor on one of its rows, move down at L-1 stays at L-1,
\* move up at 0 stays at 0, and otherwise the cursor moves by one.
C4_MoveClamps ==
    [][ (input_mode = "Normal" /\ CursorValid)
            => /\ (last' = "Down")
                    => selected' = IF selected = Len(Projection) - 1
                                   THEN selected ELSE selected + 1
               /\ (last' = "Up")
                    => selected' = IF selected = 0 THEN 0 ELSE selected - 1
      ]_vars

\* C4 (amended): selection movement wraps. With a non-empty projection of
\* length L, move down with the cursor at or beyond L-1 puts it on row 0,
\* move up with the cursor on row 0 puts it on row L-1, and otherwise the
\* cursor moves by exactly one.
C4_MoveWraps ==
    [][ (input_mode = "Normal" /\ selected # None /\ Len(Projection) > 0)
            => /\ (last' = "Down")
                    => selected' = IF selected >= Len(Projection) - 1
                                   THEN 0 ELSE selected + 1
               /\ (last' = "Up")
                    => selected' = IF selected = 0
                                   THEN Len(Projection) - 1 ELSE selected - 1
      ]_vars

\* C4 witness: move up from row 0 of a three-row projection has put the
\* cursor on the last row.
C4_Witness ==
    /\ last = "Up"
    /\ input_mode = "Normal"
    /\ Len(Projection) = 3
    /\ selected = 2

\* C5 (as claimed): whenever the projection is non-empty, the cursor is an
\* index in [0, projected_length - 1].
C5_CursorInBounds ==
    Len(Projection) > 0 => CursorValid

\* C6: with an empty projection, move up and move down leave the whole
\* application state unchanged (cursor, mode, search text, pending action,
\* list, sort key, quit flag) and kill nothing.
C6_MoveOnEmptyIsNoOp ==
    [][ (input_mode = "Normal" /\ last' \in {"Up", "Down"} /\ Len(Projection) = 0)
            => (UNCHANGED appvars /\ kill_calls' = <<>> /\ killed' = <<>>)
      ]_vars

\* C6 witness: move down was pressed with the cursor on row 1 and nothing
\* to show.
C6_Witness ==
    /\ last = "Down"
    /\ input_mode = "Normal"
    /\ Len(Projection) = 0
    /\ selected = 1

\* ------------------------------------------------ claims on the tree order

\* The record of the table with the given pid.
FlatRecord(pid) == flat[CHOOSE i \in 1..Len(flat) : flat[i].pid = pid]

\* A record is a root: it has no parent, or its parent is no pid of the table.
IsRoot(p) == p.parent = None \/ p.parent \notin PidsOf(flat)

RECURSIVE LinksToRoot(_, _)
\* The number of parent links from pid to a root, following at most fuel
\* links; None when no root is reached (the parent chain runs into a cycle).
LinksToRoot(pid, fuel) ==
    IF IsRoot(FlatRecord(pid)) THEN 0
    ELSE IF fuel = 0 THEN None
    ELSE LET up == LinksToRoot(FlatRecord(pid).parent, fuel - 1)
         IN  IF up = None THEN None ELSE up + 1

\* The positions of result that hold pid.
PositionsOf(pid) == {i \in 1..Len(result) : result[i].pid = pid}

\* C7 (as claimed): for any table of N records with unique pids and any
\* parent links (dangling, self-referencing, cyclic), the finished tree
\* output has exactly N records and holds every pid of the table exactly once.
C7_TreeVisitsAllOnce ==
    pc = "done" =>
        /\ Len(result) = Len(flat)
        /\ \A i \in 1..Len(flat) : Cardinality(PositionsOf(flat[i].pid)) = 1

\* C8: the tree traversal terminates for every table, whatever the parent
\* links are, and on the way never emits a record a second time.
C8_TreeTerminates ==
    /\ <>(pc = "done")
    /\ [](\A i, j \in 1..Len(result) : result[i].pid = result[j].pid => i = j)

\* C8 witness: the traversal of a three-record table in which two records
\* name each other as parent has finished, with the third record emitted.
C8_Witness ==
    /\ pc = "done"
    /\ Len(flat) = 3
    /\ Len(result) = 1
    /\ \E i, j \in 1..Len(flat) :
          i # j /\ flat[i].parent = flat[j].pid /\ flat[j].parent = flat[i].pid

\* C9: in the finished tree output a record of the table is emitted at depth
\* 0 exactly when its parent is absent or is no pid of the table, and the
\* indent of every emitted record is the number of parent links from it to
\* a root.
C9_TreeDepths ==
    pc = "done" =>
        /\ \A i \in 1..Len(flat) :
              (\E k \in PositionsOf(flat[i].pid) : result[k].indent = 0)
                  <=> IsRoot(flat[i])
        /\ \A k \in 1..Len(result) :
              result[k].indent = LinksToRoot(result[k].pid, Len(flat))

\* C9 witness: a finished output with a root whose parent is not listed and
\* a record two links below it.
C9_Witness ==
    /\ pc = "done"
    /\ \E k \in 1..Len(result) : result[k].indent = 2
    /\ \E k \in 1..Len(result) :
          result[k].indent = 0 /\ result[k].parent = ForeignPid

\* The positions of result that hold the records below position k: those
\* that reach result[k].pid by following parent links.
RECURSIVE Reaches(_, _, _)
Reaches(pid, anc, fuel) ==
    IF fuel = 0 \/ IsRoot(FlatRecord(pid)) THEN FALSE
    ELSE FlatRecord(pid).parent = anc
            \/ Reaches(FlatRecord(pid).parent, anc, fuel - 1)

SubtreePositions(k) ==
    {j \in 1..Len(result) : Reaches(result[j].pid, result[k].pid, Len(flat))}

\* C10: in the finished tree output the roots are in ascending pid order,
\* every record is immediately followed by its whole subtree, and the
\* children of one parent are in ascending pid order.
C10_TreeOrder ==
    pc = "done" =>
        /\ \A i, j \in 1..Len(result) :
              (i < j /\ result[i].indent = 0 /\ result[j].indent = 0)
                  => result[i].pid < result[j].pid
        /\ \A k \in 1..Len(result) :
              SubtreePositions(k) = (k + 1)..(k + Cardinality(SubtreePositions(k)))
        /\ \A i, j \in 1..Len(result) :
              (i < j /\ result[i].indent > 0 /\ result[i].parent = result[j].parent
                     /\ result[i].indent = result[j].indent)
                  => result[i].pid < result[j].pid

\* C10 witness: a finished output of two roots, the first with a child that
\* has a larger pid than the second root.
C10_Witness ==
    /\ pc = "done"
    /\ Len(result) = 3
    /\ result[1].indent = 0 /\ result[2].indent = 1 /\ result[3].indent = 0
    /\ result[2].pid > result[3].pid

\* ---------------------------------------------- claims on the network rates

\* The cumulative received and transmitted bytes of a provider reading.
TotalRx(nets) == nets["eth0"].total_received + nets["lo"].total_received
TotalTx(nets) == nets["eth0"].total_transmitted + nets["lo"].total_transmitted

\* max(0, x)
Max0(x) == IF x > 0 THEN x ELSE 0

C13_RepeatedRefreshRateZero ==
    (refreshes >= 2 /\ networks = networks_before) => (rx_rate = 0 /\ tx_rate = 0)

\* C13 witness: two refreshes in a row have read the same counters, not 0.
C13_Witness ==
    /\ refreshes >= 2
    /\ networks = networks_before
    /\ TotalRx(networks) > 0
    /\ TotalTx(networks) > 0
    /\ rx_rate = 0

\* C14: whatever the counters do, falling back included, both rates are at
\* least 0 and none is a wrapped difference: a rate is never larger than the
\* counter it was taken from.
C14_RatesNotNegative ==
    /\ rx_rate >= 0
    /\ tx_rate >= 0
    /\ rx_rate <= TotalRx(networks)
    /\ tx_rate <= TotalTx(networks)

\* C14 witness: the rx counter has fallen back since the previous refresh
\* and the rx rate is 0.
C14_Witness ==
    /\ refreshes >= 2
    /\ TotalRx(networks_before) > 0
    /\ TotalRx(networks) < TotalRx(networks_before)
    /\ rx_rate = 0

\* ------------------------------------- claims on the filter and the order

\* The same letter, case aside.
SameLetter(a, b) == a = b \/ {a, b} = {"Q", "q"}

\* needle occurs in hay as a contiguous run, letters compared case aside.
OccursIgnoringCase(hay, needle) ==
    \E off \in 0..(Len(hay) - Len(needle)) :
        \A i \in 1..Len(needle) : SameLetter(hay[off + i], needle[i])

\* The processes of the snapshot the search text selects, in its order.
Matching ==
    SelectSeq(procs, LAMBDA p :
        \/ OccursIgnoringCase(p.name, search_query)
        \/ OccursIgnoringCase(to_string(p.pid), search_query))

\* C15: a process is in the projection exactly when the search text occurs,
\* case aside, in its name or in the decimal digits of its pid; the empty
\* text selects every process; the table drawn, the row count the cursor
\* moves within and the list a kill request indexes all hold exactly these
\* processes.
C15_FilterPredicate ==
    /\ try_kill_processes = Matching
    /\ next_count = Len(Matching)
    /\ previous_count = Len(Matching)
    /\ \A sort_col \in SortColumn, sort_desc \in BOOLEAN :
          /\ Len(draw_processes(sort_col, sort_desc)) = Len(Matching)
          /\ PidsOf(draw_processes(sort_col, sort_desc)) = PidsOf(Matching)
    /\ (search_query = <<>>) => (Matching = procs)

\* C15 witness: with pids 3 "Qa", 17 "k" and 27 "qk" listed, the text "Q"
\* selects 3 and 27 (one by its upper-case Q, one by its lower-case q).
C15_Witness ==
    /\ search_query = <<"Q">>
    /\ PidsOf(procs) = {3, 17, 27}
    /\ PidsOf(try_kill_processes) = {3, 27}
    /\ next_count = 2

\* The comparison of two processes on a sort column of the drawn table.
ColumnCmp(sort_col, a, b) ==
    CASE sort_col = "Pid"  -> NumCmp(a.pid, b.pid)
      [] sort_col = "Name" -> StrCmp(a.name, b.name)
      [] sort_col = "User" -> StrCmp(a.user, b.user)
      [] sort_col = "Cpu"  -> NumCmp(a.cpu, b.cpu)
      [] sort_col = "Mem"  -> NumCmp(a.mem_bytes, b.mem_bytes)

\* The position of the process with the given pid in a list.
RowOf(rows, pid) == CHOOSE i \in 1..Len(rows) : rows[i].pid = pid

\* A list is in the order of a key of the stored list: Cpu and Memory
\* from the largest down, Pid from the smallest up.
InKeyOrder(key, rows) ==
    \A i \in 1..(Len(rows) - 1) :
        CASE key = "Cpu"    -> rows[i].cpu >= rows[i + 1].cpu
          [] key = "Memory" -> rows[i].mem_bytes >= rows[i + 1].mem_bytes
          [] OTHER          -> rows[i].pid <= rows[i + 1].pid

\* C16: the rows are sorted by the sort key and the direction. Ascending,
\* the keys never decrease down the table; descending, they never increase
\* (with Memory descending, mem(row i) >= mem(row i+1)); the direction
\* reverses the comparator's result and not the rows, so rows with equal
\* keys keep their relative order in both directions and rows with distinct
\* keys come out exactly reversed. The list a refresh stores is in the
\* order of the sort key of that refresh.
C16_SortedByKeyAndDirection ==
    /\ \A sort_col \in SortColumn :
          LET asc  == draw_processes(sort_col, FALSE)
              desc == draw_processes(sort_col, TRUE)
              n    == Len(asc)
          IN  /\ Len(desc) = n
              /\ \A i \in 1..(n - 1) :
                    /\ ColumnCmp(sort_col, asc[i], asc[i + 1]) <= 0
                    /\ ColumnCmp(sort_col, desc[i], desc[i + 1]) >= 0
              /\ \A i, j \in 1..n :
                    (i < j /\ ColumnCmp(sort_col, asc[i], asc[j]) = 0)
                        => RowOf(desc, asc[i].pid) < RowOf(desc, asc[j].pid)
              /\ (\A i, j \in 1..n : i # j => ColumnCmp(sort_col, asc[i], asc[j]) # 0)
                    => desc = [i \in 1..n |-> asc[n + 1 - i]]
    /\ (last \in {"Init", "Tick"}) => InKeyOrder(sort_by, procs)

\* C16 witness: pids 3, 17, 27 with memory 5, 9, 1 are drawn 17, 3, 27 with
\* Memory descending and 27, 3, 17 with Memory ascending.
C16_Witness ==
    /\ Len(draw_processes("Mem", TRUE)) = 3
    /\ [i \in 1..3 |-> draw_processes("Mem", TRUE)[i].pid] = <<17, 3, 27>>
    /\ [i \in 1..3 |-> draw_processes("Mem", FALSE)[i].pid] = <<27, 3, 17>>

\* C17 (as claimed): at every draw, that is after every event, the processes
\* shown are in the order of the sort key active at that draw; in particular
\* right after a sort-key change in Normal mode, before any tick.
C17_ShownInActiveOrder ==
    InKeyOrder(sort_by, Matching)

\* ------------------------------------------------ claims on the history rings

\* C18: each of the three rings has length exactly 100 at all times; a tick
\* drops the oldest entry and appends the metric it has just refreshed (the
\* whole percents of the CPU load, the rx rate, the tx rate); so entry i is
\* the sample of tick k - 100 + i, where k ticks have passed, and is the 0
\* the ring was made with where there is no such tick: after k >= 100 ticks
\* the ring is the last 100 samples, oldest first.
C18_RingHoldsLastSamples ==
    LET k == Len(samples)
    IN  /\ Len(cpu_history) = 100
        /\ Len(net_rx_history) = 100
        /\ Len(net_tx_history) = 100
        /\ \A i \in 1..100 :
              IF k - 100 + i >= 1
              THEN /\ cpu_history[i] = samples[k - 100 + i].cpu \div 10
                   /\ net_rx_history[i] = samples[k - 100 + i].rx
                   /\ net_tx_history[i] = samples[k - 100 + i].tx
              ELSE /\ cpu_history[i] = 0
                   /\ net_rx_history[i] = 0
                   /\ net_tx_history[i] = 0
        /\ (k >= 1) => /\ cpu_history[100] = cpu_global \div 10
                       /\ net_rx_history[100] = rx_rate
                       /\ net_tx_history[100] = tx_rate

\* C18 witness: after 150 ticks the rings run from the sample of tick 51 to
\* the sample of tick 150, and the two ends differ.
C18_Witness ==
    /\ Len(samples) = 150
    /\ net_rx_history[1] = samples[51].rx
    /\ net_rx_history[100] = samples[150].rx
    /\ net_rx_history[1] # net_rx_history[100]
    /\ cpu_history[1] = samples[51].cpu \div 10

\* ---------------------------------------------------- claims on the modes

C20_ModalIgnoresOtherKeys ==
    [][ (input_mode = "Popup" /\ popup.kind = "Kill"
         /\ last' \in Keys \ (CancelKeys \cup ConfirmKeys))
            => UNCHANGED <<input_mode, popup, selected, search_query, sort_by,
                           should_quit>>
      ]_vars

\* C20 (amended): while the kill confirmation is open, every key that
\* neither confirms nor cancels and is not Ctrl-C leaves the whole
\* application state unchanged and kills nothing; Ctrl-C sets the quit flag,
\* kills nothing and leaves the mode, the pending action, the cursor, the
\* search text and the sort key unchanged.
C20_ModalIgnoresAllButCtrlC ==
    [][ (input_mode = "Popup" /\ popup.kind = "Kill"
         /\ last' \in Keys \ (CancelKeys \cup ConfirmKeys))
            => /\ (last' # "Ctrl-c") => UNCHANGED appvars
               /\ (last' = "Ctrl-c")
                    => (should_quit' = TRUE
                        /\ UNCHANGED <<input_mode, popup, selected, search_query,
                                       sort_by, procs>>)
               /\ kill_calls' = <<>>
               /\ killed' = <<>>
      ]_vars

\* C20 witness: the quit key "q" was pressed while the kill confirmation was
\* open: the confirmation is still open and nothing quits.
C20_Witness ==
    /\ last = "q"
    /\ input_mode = "Popup"
    /\ popup.kind = "Kill"
    /\ ~should_quit

\* ------------------------------------------------- claims on the event queue

\* C21: the main loop handles the events in exactly the order the input
\* thread sent them: at every moment, under every interleaving of the two,
\* the events handled so far followed by the events waiting in the channel
\* are the events sent so far; none is lost, handled twice, merged or
\* handled out of order.
C21_HandledInSendOrder ==
    sent = handled \o channel

\* C21 witness: three events have been handled, a key among them, while two
\* more wait in the channel.
C21_Witness ==
    /\ Len(handled) = 3
    /\ Len(channel) = 2
    /\ \E i \in 1..3 : handled[i] # "Tick"
    /\ running

\* C30: the input thread sends a Tick after every poll, whether the poll
\* timed out or brought an event: every Input sent is followed at once by a
\* Tick (or the thread stands right before sending it), every poll that has
\* ended has its Tick, and the main loop handles a Tick right after each key
\* it handles.
C30_TickAfterEveryPoll ==
    /\ \A i \in 1..Len(sent) :
          (sent[i] # "Tick")
              => IF i < Len(sent) THEN sent[i + 1] = "Tick"
                 ELSE producer_pc = "send_tick"
    /\ \A i \in 1..(Len(handled) - 1) :
          (handled[i] # "Tick") => handled[i + 1] = "Tick"
    /\ Cardinality({i \in 1..Len(sent) : sent[i] = "Tick"})
          = IF producer_pc \in {"send_input", "send_tick"} THEN polls - 1 ELSE polls

\* C30 witness: a poll that returned early with the key "s" has had its
\* Tick sent, and the main loop has handled the key and then that Tick.
C30_Witness ==
    /\ poll_result = "key"
    /\ producer_pc = "poll"
    /\ Len(handled) >= 2
    /\ handled[Len(handled) - 1] = "s"
    /\ handled[Len(handled)] = "Tick"
    /\ channel = <<>>

\* ------------------------------------------------ claims on kill and quit

\* C22: confirming a kill whose pid is not in the provider's process table
\* (the process has gone since the request) sends no kill, raises nothing,
\* clears the pending action and returns to Normal mode.
C22_KillOfAbsentPidIsNoOp ==
    [][ (input_mode = "Popup" /\ popup.kind = "Kill" /\ last' \in ConfirmKeys
         /\ popup.pid \notin PidsOf(procs))
            => /\ killed' = <<>>
               /\ popup' = PopupNone
               /\ input_mode' = "Normal"
               /\ should_quit' = FALSE
               /\ UNCHANGED <<procs, selected, search_query, sort_by>>
      ]_vars

\* C22 witness: a kill of pid 17 was confirmed after a tick had dropped pid
\* 17 from the table: kill_process was called and no kill was sent.
C22_Witness ==
    /\ last = "Enter"
    /\ kill_calls = <<17>>
    /\ killed = <<>>
    /\ 17 \notin PidsOf(procs)
    /\ input_mode = "Normal"
    /\ popup = PopupNone

\* C23: the quit flag is set only by a quit key (q or Q in Normal mode, or
\* Ctrl-C in any mode), never by a tick or a kill; once set it stays set and
\* the loop handles no further event: nothing changes any more.
C23_QuitIsTerminal ==
    [][ /\ (~should_quit /\ should_quit')
            => \/ (last' \in {"q", "Q"} /\ input_mode = "Normal")
               \/ last' = "Ctrl-c"
        /\ (last' = "Tick" \/ kill_calls' # <<>>) => (should_quit' = should_quit)
        /\ should_quit => (should_quit' /\ UNCHANGED <<appvars, outvars, last>>)
      ]_vars

\* C23 witness: "Q" was pressed in Normal mode and the quit flag is set.
C23_Witness ==
    /\ should_quit
    /\ last = "Q"
    /\ input_mode = "Normal"

\* ------------------------------------------- claims on the keys of the help

\* C24 (as claimed): "t" in Normal mode toggles the tree view: it sets the
\* sort key to Tree when it is not Tree (so that a state with the sort key
\* Tree is reachable by key events) and away from Tree when it is.
C24_TreeKeyTogglesTree ==
    [][ (input_mode = "Normal" /\ last' = "t")
            => ((sort_by' = "Tree") <=> (sort_by # "Tree"))
      ]_vars

\* C25 (as claimed): Esc while a popup is open closes the popup, and Esc
\* while searching clears the search text: after Esc in Editing mode the
\* search text is empty.
C25_EscClearsSearch ==
    [][ /\ (input_mode = "Popup" /\ last' = "Esc")
            => (popup' = PopupNone /\ input_mode' = "Normal")
        /\ (input_mode = "Editing" /\ last' = "Esc")
            => search_query' = <<>>
      ]_vars

\* ------------------------------------------------ claims on mode and kill

\* C27: the mode and the popup agree in every reachable state: the mode is
\* Popup exactly when a popup (Help or a pending Kill) is held; in Normal
\* and Editing mode there is none.
C27_ModeMatchesPopup ==
    (input_mode = "Popup") <=> (popup.kind \in {"Help", "Kill"})

\* C27 witness: the help is open, the mode is Popup.
C27_Witness ==
    /\ input_mode = "Popup"
    /\ popup = PopupHelp
    /\ last = "?"

\* C28: kill is invoked only by a confirm taken while a Kill is pending, at
\* most once per confirm and with exactly the pending pid; confirming the
\* help, cancelling, ticks and keys in Normal or Editing mode invoke no kill.
C28_KillOnlyOnConfirm ==
    [][ /\ Len(kill_calls') <= 1
        /\ (kill_calls' # <<>> \/ killed' # <<>>)
            => /\ input_mode = "Popup"
               /\ popup.kind = "Kill"
               /\ last' \in ConfirmKeys
               /\ kill_calls' = <<popup.pid>>
               /\ killed' \in {<<>>, <<popup.pid>>}
        /\ (input_mode = "Popup" /\ popup.kind = "Help" /\ last' \in ConfirmKeys)
            => (kill_calls' = <<>> /\ killed' = <<>>)
      ]_vars

\* C28 witness: Enter on the pending kill of pid 3 has killed pid 3, once.
C28_Witness ==
    /\ last = "Enter"
    /\ kill_calls = <<3>>
    /\ killed = <<3>>

\* C29: a tick leaves the mode, the popup, the search text, the cursor, the
\* sort key and the quit flag as they are, in every mode; it changes the
\* process list only.
C29_TickFrame ==
    [][ (last' = "Tick")
            => UNCHANGED <<input_mode, popup, search_query, selected, sort_by,
                           should_quit>>
      ]_vars

\* C29 witness: a tick has emptied the process list while the search box was
\* open with text in it and the cursor on row 2; all of them are as before.
C29_Witness ==
    /\ last = "Tick"
    /\ procs = <<>>
    /\ input_mode = "Editing"
    /\ search_query # <<>>
    /\ selected = 2

\* ------------------------------------------- claims on format_duration_secs

\* The digit a character is.
DigitValue(c) == CHOOSE d \in 0..9 : Digits[d + 1] = c

\* A non-empty run of decimal digits.
IsNumber(str) ==
    /\ Len(str) > 0
    /\ \A i \in 1..Len(str) : \E d \in 0..9 : Digits[d + 1] = str[i]

RECURSIVE NumberOf(_)
\* The number a run of decimal digits reads as.
NumberOf(str) ==
    IF str = <<>> THEN 0
    ELSE 10 * NumberOf(SubSeq(str, 1, Len(str) - 1)) + DigitValue(str[Len(str)])

\* C26 (as claimed): format_duration_secs(t) is zero-padded HH:MM:SS: the
\* text is hours, ":", two digits of minutes, ":", two digits of seconds, the
\* hours of at least two digits; read back, hours = t div 3600, minutes =
\* (t mod 3600) div 60 < 60, seconds = t mod 60 < 60, and hours * 3600 +
\* minutes * 60 + seconds = t.
C26_RendersHhMmSs ==
    (rendered # <<>>)
        => LET n  == Len(rendered)
               hh == SubSeq(rendered, 1, n - 6)
               mm == SubSeq(rendered, n - 4, n - 3)
               ss == SubSeq(rendered, n - 1, n)
           IN  /\ n >= 8
               /\ rendered[n - 5] = ":"
               /\ rendered[n - 2] = ":"
               /\ IsNumber(hh) /\ IsNumber(mm) /\ IsNumber(ss)
               /\ NumberOf(hh) = total_secs \div 3600
               /\ NumberOf(mm) = (total_secs % 3600) \div 60
               /\ NumberOf(mm) < 60
               /\ NumberOf(ss) = total_secs % 60
               /\ NumberOf(ss) < 60
               /\ NumberOf(hh) * 3600 + NumberOf(mm) * 60 + NumberOf(ss) = total_secs

\* ------------------------------------------------ claims on the mode machine

\* C31: no mode is a trap. In every state the loop still runs in, the Esc
\* key can be handled as soon as the Tick behind the last Input has been,
\* and the Esc that is handled ends in Normal mode with no popup and without
\* quitting: from Editing and from Popup it goes to Normal, the popup
\* cleared, and in Normal it changes nothing.
C31_EscReachesNormal ==
    [][ /\ (~should_quit /\ last \in {"Init", "Tick"}) => ENABLED Input("Esc")
        /\ (~should_quit /\ last \notin {"Init", "Tick"}) => ENABLED Tick
        /\ (last' = "Esc")
             => /\ input_mode' = "Normal"
                /\ popup' = PopupNone
                /\ ~should_quit'
                /\ (input_mode = "Normal") => UNCHANGED appvars
      ]_vars

\* C31 witness: Esc was handled after a search text had been typed, and the
\* application is in Normal mode with no popup.
C31_Witness ==
    /\ last = "Esc"
    /\ input_mode = "Normal"
    /\ popup = PopupNone
    /\ search_query # <<>>
    /\ ~should_quit

\* The sort key a cycle request moves to.
SortCycle == [Cpu |-> "Memory", Memory |-> "Pid", Pid |-> "Cpu"]

====
